---- MODULE Spec2Model ----
(***************************************************************************)
(* Clause comparison of C00pe2/item_compator:                              *)
(*   src/light_sim.py     LightweightClauseComparator (word bag, character *)
(*                        ratio, pinyin ratio, weighted 0.5/0.3/0.2)       *)
(*   src/pipeline_sim.py  ClauseComparator (embedding cosine instead of    *)
(*                        the word bag)                                    *)
(*   src/simple_sim.py    calculate_similarities (TF-IDF, ratio, Jaccard)  *)
(*                                                                         *)
(* A text is a sequence of characters; a character is a short string that  *)
(* names it: "jia" is U+7532, "fang" U+65B9, "de" U+7684 (a stopword),     *)
(* "ding" U+5B9A and "ding2" U+8BA2 (homophones), "yi" U+4E00 and "shi"    *)
(* U+5341 (numerals), "fw_stop" U+3002, "fw_lparen" U+FF08, "fw_rparen" U+FF09,  *)
(* "lparen" and "rparen" the ASCII parentheses, "space" U+0020.  Floats    *)
(* are exact rationals [n, d] with d > 0.                                  *)
(***************************************************************************)
EXTENDS Integers, Sequences, FiniteSets, TLC

VARIABLES clause_a, clause_b, threshold, pc, res, clause_b2, res2, sims

vars == <<clause_a, clause_b, threshold, pc, res, clause_b2, res2, sims>>

\* ---------------------------------------------------------------- bounds

\* Longest raw clause drawn as an input.
MaxLen == 4

\* ------------------------------------------------------------- rationals

Rat(n, d) == [n |-> n, d |-> d]

RatEq(x, y) == x.n * y.d = y.n * x.d

RatLeq(x, y) == x.n * y.d <= y.n * x.d

RatZero == Rat(0, 1)

RatOne == Rat(1, 1)

Max(x, y) == IF x >= y THEN x ELSE y

Min(x, y) == IF x <= y THEN x ELSE y

\* ---------------------------------------------------------- configuration

\* self.punctuation: U+FF0C U+3002 U+FF01 U+FF1F U+FF1B U+FF1A U+0022 U+FF08
\* U+FF09 U+3010 U+3011 U+300A U+300B U+3001 (the literal is two adjacent
\* string literals, so it holds the ASCII double quote, "dquote" here, and no
\* single quote).
punctuation ==
    {"fw_comma", "fw_stop", "fw_excl", "fw_quest", "fw_semi", "fw_colon",
     "dquote", "fw_lparen", "fw_rparen", "fw_lbracket", "fw_rbracket",
     "fw_ltitle", "fw_rtitle", "fw_pause"}

\* self.stopwords, as tokens (each is one character long).
stopwords ==
    {<<"de">>, <<"le">>, <<"qie">>, <<"yu">>, <<"he">>, <<"huo">>,
     <<"you">>, <<"cong">>, <<"dao">>, <<"dui">>, <<"gai">>, <<"ci">>}

\* self.number_map, for the numerals of the model's alphabet: the character
\* and the string of digits that replaces it.
number_map ==
    [c \in {"yi", "shi"} |-> IF c = "yi" THEN <<"1">> ELSE <<"1", "0">>]

\* What re's \s matches.
Whitespace == {"space", "tab", "newline"}

Digits == {"0", "1", "2", "3", "4", "5", "6", "7", "8", "9"}

\* ------------------------------------------------------------ preprocess

RECURSIVE Flatten(_)
Flatten(ss) ==
    IF ss = <<>> THEN <<>> ELSE Head(ss) \o Flatten(Tail(ss))

NotSpace(c) == c \notin Whitespace

\* text.replace(cn_num, arab_num) for every entry of number_map: the digits
\* written are no key of the map, so the replacements do not feed each other.
ReplaceNumbers(text) ==
    Flatten([i \in 1..Len(text) |->
        IF text[i] \in DOMAIN number_map THEN number_map[text[i]]
        ELSE <<text[i]>>])

ReplaceBrackets(text) ==
    [i \in 1..Len(text) |->
        IF text[i] = "fw_lparen" THEN "lparen"
        ELSE IF text[i] = "fw_rparen" THEN "rparen"
        ELSE text[i]]

\* LightweightClauseComparator.preprocess
preprocess(text) ==
    ReplaceBrackets(ReplaceNumbers(SelectSeq(text, NotSpace)))

\* ClauseComparator.preprocess: strip, drop blank characters, drop \s+.
pipeline_preprocess(text) == SelectSeq(text, NotSpace)

NotPunctuation(c) == c \notin punctuation

\* remove_punctuation (the same in both comparators)
remove_punctuation(text) == SelectSeq(text, NotPunctuation)

\* --------------------------------------------------------- collaborators

\* jieba's dictionary, for the model's alphabet: U+7532 U+65B9 is a word.
Dictionary == {<<"jia", "fang">>}

SubSeqFrom(s, i) == SubSeq(s, i, Len(s))

IsPrefix(p, s) == Len(p) <= Len(s) /\ SubSeq(s, 1, Len(p)) = p

RECURSIVE DigitRun(_)
DigitRun(s) ==
    IF s # <<>> /\ Head(s) \in Digits THEN 1 + DigitRun(Tail(s)) ELSE 0

\* The first token jieba cuts from a non-empty text: the longest dictionary
\* word the text starts with, else a whole run of digits, else one character.
FirstToken(s) ==
    LET words == {w \in Dictionary : IsPrefix(w, s)}
    IN  IF words # {}
        THEN CHOOSE w \in words : \A v \in words : Len(v) <= Len(w)
        ELSE IF Head(s) \in Digits THEN SubSeq(s, 1, DigitRun(s))
        ELSE <<Head(s)>>

\* jieba.cut(text): the tokens in order; their concatenation is the text.
RECURSIVE cut(_)
cut(text) ==
    IF text = <<>> THEN <<>>
    ELSE LET t == FirstToken(text)
         IN  <<t>> \o cut(SubSeqFrom(text, Len(t) + 1))

\* The toneless syllable of a Chinese character, as its letters.
Syllable(c) ==
    CASE c = "jia" -> <<"j", "i", "a">>
      [] c = "fang" -> <<"f", "a", "n", "g">>
      [] c = "de" -> <<"d", "e">>
      [] c \in {"ding", "ding2"} -> <<"d", "i", "n", "g">>
      [] c = "yi" -> <<"y", "i">>
      [] c = "shi" -> <<"s", "h", "i">>

IsHanzi(c) == c \in {"jia", "fang", "de", "ding", "ding2", "yi", "shi"}

RECURSIVE NonHanziRun(_)
NonHanziRun(s) ==
    IF s # <<>> /\ ~IsHanzi(Head(s)) THEN 1 + NonHanziRun(Tail(s)) ELSE 0

\* lazy_pinyin(text): one syllable per Chinese character, and every run of
\* other characters kept whole as one item.
RECURSIVE lazy_pinyin(_)
lazy_pinyin(text) ==
    IF text = <<>> THEN <<>>
    ELSE IF IsHanzi(Head(text))
         THEN <<Syllable(Head(text))>> \o lazy_pinyin(Tail(text))
         ELSE LET k == NonHanziRun(text)
              IN  <<SubSeq(text, 1, k)>> \o lazy_pinyin(SubSeqFrom(text, k + 1))

\* ------------------------------------------------------- SequenceMatcher

\* The length of the common run of a and b that starts at a[i], b[j] and
\* stays inside a[..ahi], b[..bhi] (1-based, bounds inclusive).
RECURSIVE RunLen(_, _, _, _, _, _)
RunLen(a, b, i, j, ahi, bhi) ==
    IF i <= ahi /\ j <= bhi /\ a[i] = b[j]
    THEN 1 + RunLen(a, b, i + 1, j + 1, ahi, bhi)
    ELSE 0

\* Of a non-empty set of blocks <<i, j, size>>: the longest; of those the one
\* starting earliest in a; of those the one starting earliest in b.
BestBlock(blocks) ==
    CHOOSE x \in blocks : \A y \in blocks :
        \/ y[3] < x[3]
        \/ y[3] = x[3] /\ x[1] < y[1]
        \/ y[3] = x[3] /\ x[1] = y[1] /\ x[2] <= y[2]

\* SequenceMatcher.find_longest_match without junk (isjunk is None, and no
\* element is "popular" below 200 elements), on a[alo..ahi] and b[blo..bhi]:
\* (besti, bestj, bestsize), which is (alo, blo, 0) when nothing matches.
find_longest_match(a, b, alo, ahi, blo, bhi) ==
    LET starts == {c \in (alo..ahi) \X (blo..bhi) : a[c[1]] = b[c[2]]}
        blocks == {<<c[1], c[2], RunLen(a, b, c[1], c[2], ahi, bhi)>> :
                      c \in starts}
        best == BestBlock(blocks)
    IN  IF starts = {} THEN [i |-> alo, j |-> blo, size |-> 0]
        ELSE [i |-> best[1], j |-> best[2], size |-> best[3]]

\* The sum of the sizes of get_matching_blocks(): the longest match, then the
\* same on what lies left of it and on what lies right of it.
RECURSIVE matches(_, _, _, _, _, _)
matches(a, b, alo, ahi, blo, bhi) ==
    IF alo > ahi \/ blo > bhi THEN 0
    ELSE LET m == find_longest_match(a, b, alo, ahi, blo, bhi)
         IN  IF m.size = 0 THEN 0
             ELSE m.size
                  + matches(a, b, alo, m.i - 1, blo, m.j - 1)
                  + matches(a, b, m.i + m.size, ahi, m.j + m.size, bhi)

\* A variant of _calculate_ratio that tests the matches, not the length.
calculate_ratio_tests_matches(m, length) ==
    IF m # 0 THEN Rat(2 * m, length) ELSE RatOne

\* difflib._calculate_ratio
calculate_ratio(m, length) ==
    IF length # 0 THEN Rat(2 * m, length) ELSE RatOne

\* SequenceMatcher(None, a, b).ratio()
ratio(a, b) ==
    calculate_ratio(matches(a, b, 1, Len(a), 1, Len(b)), Len(a) + Len(b))

\* ---------------------------------------------------- light_sim.py signals

\* The weights of the weighted average and the scale they are written in
\* (0.5, 0.3, 0.2 are 5, 3, 2 tenths); a threshold is a number of tenths too.
WordsWeight == 5

CharWeight == 3

PinyinWeight == 2

Tenths == 10

Range(s) == {s[i] : i \in 1..Len(s)}

NotStopword(w) == w \notin stopwords

\* Counter(words): each word with the number of times it occurs.
Counter(words) ==
    [w \in Range(words) |-> Cardinality({i \in 1..Len(words) : words[i] = w})]

RECURSIVE SumOver(_, _)
SumOver(S, f) ==
    IF S = {} THEN 0
    ELSE LET x == CHOOSE y \in S : TRUE
         IN  f[x] + SumOver(S \ {x}, f)

\* sum(counter.values())
SumValues(counter) == SumOver(DOMAIN counter, counter)

\* A variant of get_words_similarity that divides by the first total only.
get_words_similarity_first_total(text1, text2) ==
    LET words1 == SelectSeq(cut(text1), NotStopword)
        words2 == SelectSeq(cut(text2), NotStopword)
        counter1 == Counter(words1)
        counter2 == Counter(words2)
        common_words == DOMAIN counter1 \cap DOMAIN counter2
        numerator ==
            SumOver(common_words,
                    [w \in common_words |-> Min(counter1[w], counter2[w])])
    IN  IF common_words = {} THEN RatZero
        ELSE Rat(numerator, SumValues(counter1))

\* get_words_similarity
get_words_similarity(text1, text2) ==
    LET words1 == SelectSeq(cut(text1), NotStopword)
        words2 == SelectSeq(cut(text2), NotStopword)
        counter1 == Counter(words1)
        counter2 == Counter(words2)
        common_words == DOMAIN counter1 \cap DOMAIN counter2
        numerator ==
            SumOver(common_words,
                    [w \in common_words |-> Min(counter1[w], counter2[w])])
        denominator == Max(SumValues(counter1), SumValues(counter2))
    IN  IF common_words = {} THEN RatZero
        ELSE Rat(numerator, denominator)

\* get_char_similarity (the same in both comparators)
get_char_similarity(text1, text2) == ratio(text1, text2)

\* LightweightClauseComparator.get_pinyin_similarity: the ratio of the two
\* lists of syllables.
get_pinyin_similarity(text1, text2) ==
    ratio(lazy_pinyin(text1), lazy_pinyin(text2))

\* words_sim * 0.5 + char_sim * 0.3 + pinyin_sim * 0.2
weighted_average(w, c, p) ==
    Rat(WordsWeight * w.n * c.d * p.d
          + CharWeight * c.n * w.d * p.d
          + PinyinWeight * p.n * w.d * c.d,
        Tenths * w.d * c.d * p.d)

\* What is_consistent returns: (verdict, score, reason or details).  reason
\* is "Exact" for the code's exact-match string, "PunctuationOnly" for its
\* punctuation-only string, "Weighted" when the third item is the details (in
\* pipeline_sim.py, the formatted score); details holds the signals computed.
Result(verdict, score, reason, details) ==
    [verdict |-> verdict, score |-> score, reason |-> reason,
     details |-> details]

\* A variant of the comparison that rejects a score equal to the threshold.
Above(score, th) == th * score.d < Tenths * score.n

\* weighted_sim >= threshold, the threshold in tenths
AtLeast(score, th) == RatLeq(Rat(th, Tenths), score)

\* A variant of is_consistent that tests the stripped texts first.
is_consistent_stripped_first(a, b, th) ==
    LET clean_a == preprocess(a)
        clean_b == preprocess(b)
        clean_a_no_punct == remove_punctuation(clean_a)
        clean_b_no_punct == remove_punctuation(clean_b)
        words_sim == get_words_similarity(clean_a_no_punct, clean_b_no_punct)
        char_sim == get_char_similarity(clean_a_no_punct, clean_b_no_punct)
        pinyin_sim == get_pinyin_similarity(clean_a_no_punct, clean_b_no_punct)
        weighted_sim == weighted_average(words_sim, char_sim, pinyin_sim)
    IN  IF clean_a_no_punct = clean_b_no_punct
        THEN Result(TRUE, Rat(99, 100), "PunctuationOnly", <<>>)
        ELSE IF clean_a = clean_b
        THEN Result(TRUE, RatOne, "Exact", <<>>)
        ELSE Result(AtLeast(weighted_sim, th), weighted_sim, "Weighted",
                    <<words_sim, char_sim, pinyin_sim>>)

\* LightweightClauseComparator.is_consistent
is_consistent(a, b, th) ==
    LET clean_a == preprocess(a)
        clean_b == preprocess(b)
        clean_a_no_punct == remove_punctuation(clean_a)
        clean_b_no_punct == remove_punctuation(clean_b)
        words_sim == get_words_similarity(clean_a_no_punct, clean_b_no_punct)
        char_sim == get_char_similarity(clean_a_no_punct, clean_b_no_punct)
        pinyin_sim == get_pinyin_similarity(clean_a_no_punct, clean_b_no_punct)
        weighted_sim == weighted_average(words_sim, char_sim, pinyin_sim)
    IN  IF clean_a = clean_b
        THEN Result(TRUE, RatOne, "Exact", <<>>)
        ELSE IF clean_a_no_punct = clean_b_no_punct
        THEN Result(TRUE, Rat(99, 100), "PunctuationOnly", <<>>)
        ELSE Result(AtLeast(weighted_sim, th), weighted_sim, "Weighted",
                    <<words_sim, char_sim, pinyin_sim>>)

\* ------------------------------------------------------- pipeline_sim.py

\* What self.model.encode can return for a text: vectors of length 5, so that
\* the cosine is a rational.  Two of them point more than a right angle apart.
Embeddings == {<<5, 0>>, <<3, 4>>, <<-4, 3>>}

Dot(u, v) == u[1] * v[1] + u[2] * v[2]

\* np.linalg.norm, on vectors whose length is a whole number
Norm(v) == CHOOSE n \in 0..Dot(v, v) : n * n = Dot(v, v)

\* get_semantic_similarity, given the two embeddings the model returned
get_semantic_similarity(e1, e2) == Rat(Dot(e1, e2), Norm(e1) * Norm(e2))

\* ' '.join(items)
RECURSIVE JoinSpace(_)
JoinSpace(items) ==
    IF items = <<>> THEN <<>>
    ELSE IF Len(items) = 1 THEN Head(items)
    ELSE Head(items) \o <<"space">> \o JoinSpace(Tail(items))

\* ClauseComparator.get_pinyin_similarity: the ratio of the two strings of
\* space-joined syllables, letter by letter.
pipeline_get_pinyin_similarity(text1, text2) ==
    ratio(JoinSpace(lazy_pinyin(text1)), JoinSpace(lazy_pinyin(text2)))

\* ClauseComparator.is_consistent up to its second return: the reason of the
\* shortcut taken, "None" when the comparison goes on to the signals.
pipeline_shortcut(a, b) ==
    LET clean_a == pipeline_preprocess(a)
        clean_b == pipeline_preprocess(b)
    IN  IF clean_a = clean_b THEN "Exact"
        ELSE IF remove_punctuation(clean_a) = remove_punctuation(clean_b)
        THEN "PunctuationOnly"
        ELSE "None"

\* char_sim and pinyin_sim of ClauseComparator.is_consistent
pipeline_surface(a, b) ==
    LET clean_a_no_punct == remove_punctuation(pipeline_preprocess(a))
        clean_b_no_punct == remove_punctuation(pipeline_preprocess(b))
    IN  [char_sim |-> get_char_similarity(clean_a_no_punct, clean_b_no_punct),
         pinyin_sim |->
            pipeline_get_pinyin_similarity(clean_a_no_punct, clean_b_no_punct)]

\* ClauseComparator.is_consistent from the shortcut taken, the two surface
\* signals and e_a, e_b: what the embedding model returns for the two
\* preprocessed clauses.
pipeline_result(shortcut, surface, th, e_a, e_b) ==
    LET semantic_sim == get_semantic_similarity(e_a, e_b)
        weighted_sim ==
            weighted_average(semantic_sim, surface.char_sim, surface.pinyin_sim)
    IN  IF shortcut = "Exact"
        THEN Result(TRUE, RatOne, "Exact", <<>>)
        ELSE IF shortcut = "PunctuationOnly"
        THEN Result(TRUE, Rat(99, 100), "PunctuationOnly", <<>>)
        ELSE Result(AtLeast(weighted_sim, th), weighted_sim, "Weighted",
                    <<semantic_sim, surface.char_sim, surface.pinyin_sim>>)

\* ClauseComparator.is_consistent
pipeline_is_consistent(a, b, th, e_a, e_b) ==
    pipeline_result(pipeline_shortcut(a, b), pipeline_surface(a, b), th,
                    e_a, e_b)

\* --------------------------------------------------------- simple_sim.py

IsWordChar(c) == IsHanzi(c) \/ c \in Digits

\* The terms TfidfVectorizer's default token pattern finds in the
\* space-joined tokens: runs of two or more word characters.
Vocabulary(tokens) ==
    {t \in Range(tokens) : Len(t) >= 2 /\ \A i \in 1..Len(t) : IsWordChar(t[i])}

\* What calculate_similarities returns or raises.  outcome is "ok" or the
\* exception raised; the TF-IDF cosine is kept out (no rational in general).
Similarities(outcome, sequence_sim, jaccard) ==
    [outcome |-> outcome, sequence_similarity |-> sequence_sim,
     jaccard_similarity |-> jaccard]

\* calculate_similarities
calculate_similarities(text1, text2) ==
    LET tokens1 == cut(text1)
        tokens2 == cut(text2)
        sequence_sim == ratio(text1, text2)
        set1 == Range(tokens1)
        set2 == Range(tokens2)
    IN  IF Vocabulary(tokens1) \cup Vocabulary(tokens2) = {}
        THEN Similarities("ValueError", RatZero, RatZero)
        ELSE IF Cardinality(set1 \cup set2) = 0
        THEN Similarities("ZeroDivisionError", sequence_sim, RatZero)
        ELSE Similarities("ok", sequence_sim,
                          Rat(Cardinality(set1 \cap set2),
                              Cardinality(set1 \cup set2)))

\* -------------------------------------------------------------- the calls

\* The clauses compared are written in one of these pairs of characters.
Alphabets ==
    {{"jia", "fang"}, {"jia", "de"}, {"ding", "ding2"}, {"yi", "shi"},
     {"shi", "jia"}, {"jia", "space"}, {"jia", "fw_stop"},
     {"jia", "fw_lparen"}, {"fw_stop", "fw_lparen"}}

Clauses(alphabet) == UNION {[1..n -> alphabet] : n \in 0..MaxLen}

\* The characters a degraded clause gets in place of a shared one.
Replacements == {"fang", "ding2"}

\* Thresholds passed, in tenths: 0.9 is the default; -0.1 lies outside [0, 1].
Thresholds == {-1, 0, 5, 9}

NoResult == Result(FALSE, RatZero, "None", <<>>)

NoSimilarities == Similarities("None", RatZero, RatZero)

Init ==
    /\ \E alphabet \in Alphabets :
          /\ clause_a \in Clauses(alphabet)
          /\ clause_b \in Clauses(alphabet)
    /\ threshold \in Thresholds
    /\ pc = "start"
    /\ res = NoResult
    /\ clause_b2 = <<>>
    /\ res2 = NoResult
    /\ sims = NoSimilarities

\* comparator.is_consistent(clause_a, clause_b, threshold)
Light ==
    /\ pc = "start"
    /\ res' = is_consistent(clause_a, clause_b, threshold)
    /\ pc' = "light"
    /\ UNCHANGED <<clause_a, clause_b, threshold, clause_b2, res2, sims>>

\* The same comparison with the two clauses in the other order.
LightSwapped ==
    /\ pc = "light"
    /\ res2' = is_consistent(clause_b, clause_a, threshold)
    /\ pc' = "swapped"
    /\ UNCHANGED <<clause_a, clause_b, threshold, clause_b2, res, sims>>

\* The comparison of clause_a with clause_b after one more character that
\* clause_b shares with clause_a is replaced by one clause_a does not hold.
LightDegraded ==
    /\ pc = "light"
    /\ \E i \in 1..Len(clause_b) : \E c \in Replacements :
          /\ clause_b[i] \in Range(clause_a)
          /\ c \notin Range(clause_a)
          /\ clause_b2' = [clause_b EXCEPT ![i] = c]
    /\ res2' = is_consistent(clause_a, clause_b2', threshold)
    /\ pc' = "degraded"
    /\ UNCHANGED <<clause_a, clause_b, threshold, res, sims>>

\* ClauseComparator().is_consistent(clause_a, clause_b, threshold); the
\* embedding model gives equal texts equal vectors.
Semantic ==
    /\ pc = "start"
    /\ \E shortcut \in {pipeline_shortcut(clause_a, clause_b)} :
       \E surface \in {pipeline_surface(clause_a, clause_b)} :
       \E e_a \in Embeddings : \E e_b \in Embeddings :
          /\ pipeline_preprocess(clause_a) = pipeline_preprocess(clause_b)
                => e_a = e_b
          /\ res' = pipeline_result(shortcut, surface, threshold, e_a, e_b)
    /\ pc' = "semantic"
    /\ UNCHANGED <<clause_a, clause_b, threshold, clause_b2, res2, sims>>

\* calculate_similarities(clause_a, clause_b)
Simple ==
    /\ pc = "start"
    /\ sims' = calculate_similarities(clause_a, clause_b)
    /\ pc' = "simple"
    /\ UNCHANGED <<clause_a, clause_b, threshold, clause_b2, res, res2>>

Next == Light \/ LightSwapped \/ LightDegraded \/ Semantic \/ Simple

Spec == Init /\ [][Next]_vars

\* The calls of LightweightClauseComparator.is_consistent alone.
NextLight == Light

SpecLight == Init /\ [][NextLight]_vars

\* One call of either comparator.
NextComparators == Light \/ Semantic

SpecComparators == Init /\ [][NextComparators]_vars

\* ============================================================== properties

\* A rational with d = 0 would be a division by zero; a signal or score is in
\* range when it is a number of [0, 1].
Defined(x) == x.d > 0

InUnitInterval(x) == x.d > 0 /\ 0 <= x.n /\ x.n <= x.d

ExactResult == Result(TRUE, RatOne, "Exact", <<>>)

PunctuationOnlyResult == Result(TRUE, Rat(99, 100), "PunctuationOnly", <<>>)

\* The text as the weighted signals read it.
Stripped(text) == remove_punctuation(preprocess(text))

\* The raw text without the characters of the configured punctuation set.
WithoutConfiguredPunctuation(text) == SelectSeq(text, NotPunctuation)

\* C1: symmetry.  Comparing (A, B) and (B, A) under one threshold gives the
\* same score and the same verdict, and each signal of the weighted path has
\* the same value in both orders.
C1_Symmetry ==
    pc = "swapped" =>
        /\ RatEq(res.score, res2.score)
        /\ res.verdict = res2.verdict
        /\ res.reason = res2.reason
        /\ res.reason = "Weighted" =>
              \A k \in 1..3 : RatEq(res.details[k], res2.details[k])

\* C2: punctuation invariance.  Two clauses that differ only by characters of
\* the configured punctuation set, and are not equal after normalization,
\* compare as (true, 0.99, punctuation-only) under any threshold, with no
\* signal computed.
C2_PunctuationInvariance ==
    ( /\ pc = "light"
      /\ WithoutConfiguredPunctuation(clause_a)
            = WithoutConfiguredPunctuation(clause_b)
      /\ preprocess(clause_a) # preprocess(clause_b) )
    => res = PunctuationOnlyResult

\* C3: idempotence.  A clause compared with itself, and any pair equal after
\* normalization, compares as (true, 1.0, exact) under any threshold in both
\* comparators: never as punctuation-only, never weighted.
C3_Idempotence ==
    /\ ( pc = "light" /\ preprocess(clause_a) = preprocess(clause_b) )
          => res = ExactResult
    /\ ( pc = "semantic"
         /\ pipeline_preprocess(clause_a) = pipeline_preprocess(clause_b) )
          => res = ExactResult
    /\ ( pc \in {"light", "semantic"} /\ clause_a = clause_b )
          => res = ExactResult

\* C3's case: a clause of two punctuation marks was compared with itself
\* under the default threshold and matched exactly.
C3_Witness ==
    /\ pc = "light"
    /\ clause_a = clause_b
    /\ clause_a = <<"fw_stop", "fw_lparen">>
    /\ threshold = 9
    /\ res = ExactResult

\* C4: range.  Every signal computed by either comparator and the score it
\* returns lie in [0, 1].
C4_RangeInvariant ==
    pc \in {"light", "semantic"} =>
        /\ InUnitInterval(res.score)
        /\ \A k \in 1..Len(res.details) : InUnitInterval(res.details[k])

\* C5: empty input.  Empty against empty is the exact match; empty against a
\* clause that is non-empty after normalization and stripping is weighted
\* with the three signals 0, the score 0 and, for a threshold above 0, the
\* verdict false; nothing is divided by zero.
C5_EmptyInput ==
    pc = "light" =>
        /\ ( clause_a = <<>> /\ clause_b = <<>> ) => res = ExactResult
        /\ ( \/ clause_a = <<>> /\ Stripped(clause_b) # <<>>
             \/ clause_b = <<>> /\ Stripped(clause_a) # <<>> )
              => /\ res.reason = "Weighted"
                 /\ \A k \in 1..3 :
                       Defined(res.details[k]) /\ res.details[k].n = 0
                 /\ Defined(res.score) /\ res.score.n = 0
                 /\ threshold > 0 => ~res.verdict

\* C5's case: the empty clause was compared with a clause of full length
\* under the default threshold and rejected.
C5_Witness ==
    /\ pc = "light"
    /\ clause_a = <<>>
    /\ Len(Stripped(clause_b)) >= MaxLen
    /\ threshold = 9
    /\ res.reason = "Weighted"
    /\ ~res.verdict

\* C6: weighted fusion.  When neither shortcut applies the result is weighted:
\* its signals are the word-bag, character and pinyin similarities of the
\* stripped normalized texts, its score is 0.5, 0.3 and 0.2 of them, and its
\* verdict is true exactly when the score is at least the threshold.
C6_WeightedFusion ==
    ( /\ pc = "light"
      /\ preprocess(clause_a) # preprocess(clause_b)
      /\ Stripped(clause_a) # Stripped(clause_b) )
    => LET w == res.details[1]
           c == res.details[2]
           p == res.details[3]
       IN  /\ res.reason = "Weighted"
           /\ Len(res.details) = 3
           /\ w = get_words_similarity(Stripped(clause_a), Stripped(clause_b))
           /\ c = get_char_similarity(Stripped(clause_a), Stripped(clause_b))
           /\ p = get_pinyin_similarity(Stripped(clause_a), Stripped(clause_b))
           /\ 10 * res.score.n * w.d * c.d * p.d
                 = res.score.d * (5 * w.n * c.d * p.d + 3 * c.n * w.d * p.d
                                    + 2 * p.n * w.d * c.d)
           /\ res.verdict <=> (threshold * res.score.d <= 10 * res.score.n)

\* C6's case: a weighted score that equals the threshold 0.5 and is accepted.
C6_Witness ==
    /\ pc = "light"
    /\ res.reason = "Weighted"
    /\ threshold = 5
    /\ 2 * res.score.n = res.score.d
    /\ res.verdict

\* C7: configuration validation.  The weights are non-negative and sum to 1.0
\* and no comparison runs with a threshold outside [0, 1]: such a threshold
\* is rejected before any comparison is attempted.
C7_ThresholdValidated ==
    pc = "light" =>
        /\ WordsWeight >= 0 /\ CharWeight >= 0 /\ PinyinWeight >= 0
        /\ WordsWeight + CharWeight + PinyinWeight = Tenths
        /\ 0 <= threshold /\ threshold <= Tenths

\* C8: monotonic degradation.  With A fixed and B on the weighted path,
\* replacing one more character B shares with A by one A does not hold does
\* not raise the score.
C8_MonotonicDegradation ==
    ( /\ pc = "degraded"
      /\ res.reason = "Weighted"
      /\ res2.reason = "Weighted" )
    => RatLeq(res2.score, res.score)

\* C9: the Jaccard guard.  calculate_similarities never raises; its Jaccard
\* value is the shared tokens over all tokens, 1.0 for two empty texts and
\* 0.0 when exactly one text is empty.
C9_JaccardGuard ==
    pc = "simple" =>
        LET S1 == Range(cut(clause_a))
            S2 == Range(cut(clause_b))
        IN  /\ sims.outcome = "ok"
            /\ Defined(sims.jaccard_similarity)
            /\ S1 \cup S2 # {} =>
                  RatEq(sims.jaccard_similarity,
                        Rat(Cardinality(S1 \cap S2), Cardinality(S1 \cup S2)))
            /\ ( clause_a = <<>> /\ clause_b = <<>> )
                  => RatEq(sims.jaccard_similarity, RatOne)
            /\ ( (clause_a = <<>>) # (clause_b = <<>>) )
                  => RatEq(sims.jaccard_similarity, RatZero)

\* The number of times token t occurs among the tokens of a stripped text
\* that are no stopwords.
Occurrences(text, t) ==
    LET tokens == cut(Stripped(text))
    IN  Cardinality({i \in 1..Len(tokens) :
                        tokens[i] = t /\ tokens[i] \notin stopwords})

\* The number of tokens of a stripped text that are no stopwords.
Total(text) ==
    LET tokens == cut(Stripped(text))
    IN  Cardinality({i \in 1..Len(tokens) : tokens[i] \notin stopwords})

\* C10: the word-bag signal.  With no token in common it is 0.0 and the score
\* is 0.3 of the character signal plus 0.2 of the pinyin signal; otherwise it
\* is the sum over the common tokens of the smaller count, over the larger of
\* the two totals, which is not zero.
C10_WordBag ==
    ( pc = "light" /\ res.reason = "Weighted" )
    => LET w == res.details[1]
           c == res.details[2]
           p == res.details[3]
           tokens == (Range(cut(Stripped(clause_a)))
                        \cup Range(cut(Stripped(clause_b)))) \ stopwords
           common == {t \in tokens : Occurrences(clause_a, t) > 0
                                       /\ Occurrences(clause_b, t) > 0}
           shared == [t \in common |-> Min(Occurrences(clause_a, t),
                                            Occurrences(clause_b, t))]
           larger == Max(Total(clause_a), Total(clause_b))
       IN  /\ Defined(w)
           /\ common = {} =>
                 /\ w.n = 0
                 /\ 10 * res.score.n * c.d * p.d
                       = res.score.d * (3 * c.n * p.d + 2 * p.n * c.d)
           /\ common # {} =>
                 /\ larger > 0
                 /\ w.n * larger = w.d * SumOver(common, shared)

\* C10's case: two clauses whose tokens repeat, one of them a stopword, with
\* a word bag strictly between 0 and 1.
C10_Witness ==
    /\ pc = "light"
    /\ res.reason = "Weighted"
    /\ "de" \in Range(clause_a)
    /\ \E t \in Range(cut(Stripped(clause_b))) : Occurrences(clause_b, t) >= 2
    /\ 0 < res.details[1].n
    /\ res.details[1].n < res.details[1].d

====
